---- MODULE Spec2Model ----
(***************************************************************************)
(* pulp_auto: the Connection handle (class Pulp, src/pulp_auto/pulp.py)    *)
(* shared by cooperative tasks (greenlets).  Greenlets switch only where   *)
(* the code suspends: a blocked acquire of the semaphore, the network I/O  *)
(* inside session.send, and gevent.joinall.  cur names the greenlet that   *)
(* runs; cur = Hub means every greenlet is suspended and the scheduler     *)
(* picks the next one.                                                     *)
(*                                                                         *)
(* The second part is the Task state machine (src/pulp_auto/task.py):      *)
(* AbstractTask.wait polling a job until an end state or the deadline, and *)
(* Task.wait_for_response / Task.wait_for_report walking lists and trees   *)
(* of jobs.  It is one sequential caller; the clock and the answers of the *)
(* server are the environment.  Spec runs the Connection with no Task      *)
(* call, SpecTask runs a Task call against an idle Connection.             *)
(***************************************************************************)
EXTENDS Integers, Sequences, FiniteSets, TLC

NumClients == 2      \* client greenlets sharing one Connection
MaxOps == 4          \* operations (send, async, asserting) the clients start

Hub == 0
Clients == 1..NumClients
Statuses == {200, 400}
CheckFunctions == {"default", "only400"}

VARIABLES
    pc,              \* client -> where the greenlet is
    cur,             \* the running greenlet, or Hub
    stack,           \* client -> its open with-scopes, innermost first
    ops,             \* operations the clients have started so far
    arg,             \* client -> argument of the call a client is blocked in
    exc,             \* client -> exception propagating in the client, or "none"
    ret,             \* client -> what the client's last send returned
    last_request,    \* Pulp.last_request
    last_response,   \* Pulp.last_response
    _asserting,      \* Pulp._asserting
    check_function,  \* Pulp.check_function
    _async,          \* Pulp._async
    _semaphore,      \* counter of Pulp._semaphore (BoundedSemaphore(1))
    jobs,            \* client -> the sender greenlets its batch exit joins
    orphans          \* sender greenlets of batches that have already exited

vars == <<pc, cur, stack, ops, arg, exc, ret, last_request, last_response,
          _asserting, check_function, _async, _semaphore, jobs, orphans>>

conn == <<last_request, last_response, _asserting, check_function, _async>>

VARIABLES
    tpc,             \* where the Task call is (line of task.py it is at)
    call,            \* the call made: "response", "report", or "none"
    timeout,         \* its timeout argument
    tree,            \* the server's jobs: id -> its spawned_tasks
    now,             \* time.time()
    delta,           \* wait: the deadline
    data,            \* job id -> data of the Task object made for it
    tasks,           \* wait_for_response: the Tasks parsed from the response
    ti,              \* wait_for_response: position in tasks
    frames,          \* wait_for_report: the nested calls, innermost last
    texc,            \* the exception the call ended with
    gone,            \* jobs the server has reported as not existing
    seen,            \* history: outcomes of the reloads of the current wait
    sleeps,          \* history: sleeps of the current wait
    entered,         \* history: time.time() when the current wait was entered
    visited,         \* history: jobs whose wait was entered, in order
    fetched,         \* history: jobs wait_for_report fetched, in order
    reloaded,        \* history: jobs that were reloaded
    returns          \* history: the waits that returned normally, in order

tvars == <<tpc, call, timeout, tree, now, delta, data, tasks, ti, frames,
           texc, gone, seen, sleeps, entered, visited, fetched, reloaded,
           returns>>

allvars == <<vars, tvars>>

----------------------------------------------------------------------------
(* Values *)

NoneT == [kind |-> "None"]
One(x) == [kind |-> "one", item |-> x]
Tup(s) == [kind |-> "tuple", items |-> s]

\* request(self.url, self.auth): the prepared request of descriptor r.  url
\* and auth are set once in __init__ and never written again.  Every call of
\* send passes a descriptor of its own: the k-th operation passes k.
Prepare(r) == r

\* what session.send returns for prepared request r when the server
\* answers with status s
Response(r, s) == [req |-> r, status_code |-> s]

\* Greenlet.value of a greenlet that has not (or not successfully) finished
NoneValue == [req |-> 0, status_code |-> 0]

\* a scope of contextlib.contextmanager: its kind and the generator's locals
AsyncFrame(t) ==
    [kind |-> "async", timeout |-> t, old_value |-> FALSE,
     old_check_function |-> "default"]
AssertingFrame(ov, ocf) ==
    [kind |-> "asserting", timeout |-> FALSE, old_value |-> ov,
     old_check_function |-> ocf]

Job(r) == [req |-> r, st |-> "spawned", value |-> NoneValue]

----------------------------------------------------------------------------
(* Pure parts of class Pulp *)

\* a plausible slip in the default predicate: 400 counted as acceptable
CheckInclusive(cf, x) ==
    IF cf = "default"
    THEN x.status_code >= 200 /\ x.status_code <= 400
    ELSE x.status_code = 400

\* Pulp.check_function (the default), or the one a caller passes to
\* asserting(): lambda x: x.status_code == 400
Check(cf, x) ==
    IF cf = "default"
    THEN x.status_code >= 200 /\ x.status_code < 400
    ELSE x.status_code = 400

\* reduce(lambda x, y: x and self.check_function(y), self.last_response, True)
\* `x and f(y)` does not evaluate f(y) once x is False; f(None) raises
\* AttributeError (None has no status_code).
RECURSIVE Reduce(_, _, _)
Reduce(acc, items, cf) ==
    IF items = <<>> THEN acc
    ELSE IF acc # "True" THEN acc
    ELSE IF Head(items) = NoneValue THEN "AttributeError"
    ELSE Reduce(IF Check(cf, Head(items)) THEN "True" ELSE "False",
                Tail(items), cf)

\* Pulp.is_ok: "True", "False", or the exception evaluating it raises
is_ok(lr, cf) ==
    IF lr.kind = "None" THEN "True"
    ELSE IF lr.kind = "tuple" THEN Reduce("True", lr.items, cf)
    ELSE IF Check(cf, lr.item) THEN "True" ELSE "False"

\* the assert statement of send: the exception it raises, or "none".  The
\* message formats self.last_request, which must be one prepared request.
AssertSend(asserting, lreq, lresp, cf) ==
    IF ~asserting THEN "none"
    ELSE LET ok == is_ok(lresp, cf)
         IN IF ok = "True" THEN "none"
            ELSE IF ok = "False"
                 THEN (IF lreq.kind = "one" THEN "AssertionError"
                       ELSE "AttributeError")
            ELSE ok

\* the assert statement of async: the exception it raises, or "none".  The
\* message names `preprequest`, which is bound nowhere in async: evaluating
\* it raises NameError before AssertionError can be raised.
AssertBatch(asserting, lresp, cf) ==
    IF ~asserting THEN "none"
    ELSE LET ok == is_ok(lresp, cf)
         IN IF ok = "True" THEN "none"
            ELSE IF ok = "False" THEN "NameError"
            ELSE ok

\* self.last_request += (request(self.url, self.auth), ): the new value, or
\* NoneT where + raises TypeError (last_request is not a tuple)
Queue(lreq, r) ==
    IF lreq.kind = "tuple" THEN Tup(Append(lreq.items, Prepare(r))) ELSE NoneT

\* a plausible slip: the first queued request is skipped
SpawnSkipsFirst(lreq) ==
    [i \in 1..(Len(lreq.items) - 1) |-> Job(lreq.items[i + 1])]

\* [gevent.spawn(sender, request) for request in self.last_request]
Spawn(lreq) == [i \in 1..Len(lreq.items) |-> Job(lreq.items[i])]

\* a plausible slip: the values taken in reverse order
JobValuesReversed(js) == [i \in 1..Len(js) |-> js[Len(js) + 1 - i].value]

\* tuple([job.value for job in jobs])
JobValues(js) == [i \in 1..Len(js) |-> js[i].value]

\* a plausible slip: sender calls session.send without the semaphore
SenderMayEnterUnlocked(sem) == TRUE

\* `with self._semaphore` in sender: may this greenlet enter
SenderMayEnter(sem) == sem > 0

\* `with self._semaphore` in send: may this greenlet enter
SendMayEnter(sem) == sem > 0

Finished(j) == j.st \in {"done", "failed"}
Unfinished(js) == SelectSeq(js, LAMBDA j : ~Finished(j))
Lingering(js) ==
    [i \in 1..Len(Unfinished(js)) |->
        [req |-> Unfinished(js)[i].req, st |-> Unfinished(js)[i].st]]

RemoveAt(s, i) == [k \in 1..(Len(s) - 1) |-> IF k < i THEN s[k] ELSE s[k + 1]]

----------------------------------------------------------------------------
(* Task values *)

MaxTime == 5         \* the clock stops here; one unit is one poll interval

\* timeout arguments tried: none at all, and room for three polls
Timeouts == {0, 3}

\* TaskDetails
active_states == {"running", "waiting"}
end_states == {"finished", "error", "canceled", "cancelled"}
error_states == {"error"}

\* the state tags the server reports
States == active_states \cup end_states

\* error payloads the server reports with the state error
Errors == {"e1", "e2"}
NoError == "None"

\* Task.data, as far as wait reads it: data['state'] and data['error']
TaskData(s, e) == [state |-> s, error |-> e]

\* no Task object has been made for the job
NoData == TaskData("None", NoError)

\* what the server can report about a job that exists
Reported ==
    {TaskData(s, NoError) : s \in States \ error_states}
        \cup {TaskData(s, e) : s \in error_states, e \in Errors}

\* the answer to a GET of a job: its representation, or that it is gone
Found(d) == [found |-> TRUE, data |-> d]
Gone == [found |-> FALSE, data |-> NoData]
Outcomes == {Found(d) : d \in Reported} \cup {Gone}

\* the call report handed to wait_for_report / the response handed to
\* wait_for_response is node Report of the tree; jobs are 1, 2, 3
Report == 0

\* a job's representation with and without the key spawned_tasks
Node(refs) == [has |-> TRUE, refs |-> refs]
Leaf == [has |-> FALSE, refs |-> <<>>]

Trees ==
    { Report :> Node(<<>>),
      Report :> Node(<<1>>) @@ 1 :> Leaf,
      Report :> Node(<<1>>) @@ 1 :> Node(<<>>),
      Report :> Node(<<1>>) @@ 1 :> Node(<<2>>) @@ 2 :> Leaf,
      Report :> Node(<<1, 2>>) @@ 1 :> Leaf @@ 2 :> Leaf,
      Report :> Node(<<1, 2, 3>>) @@ 1 :> Leaf @@ 2 :> Leaf @@ 3 :> Leaf,
      Report :> Node(<<1, 3>>) @@ 1 :> Node(<<2>>) @@ 2 :> Leaf @@ 3 :> Leaf }

TaskIds == UNION {DOMAIN tr \ {Report} : tr \in Trees}

\* exceptions a Task call ends with
NoExc == [type |-> "none", task |-> Report, error |-> NoError]

\* a plausible slip: the payload is left out of the exception
TaskFailureWithoutPayload(j, d) ==
    [type |-> "TaskFailure", task |-> j, error |-> NoError]

\* TaskFailure('Task failed: %r' % self.data['error'], task=self)
TaskFailure(j, d) == [type |-> "TaskFailure", task |-> j, error |-> d.error]

\* TaskTimeoutError('Waiting exceeded %r second(s)' % timeout, task=self)
TaskTimeoutError(j) ==
    [type |-> "TaskTimeoutError", task |-> j, error |-> NoError]

\* the failure of a fetch of a job that is gone
NotFound(j) == [type |-> "AssertionError", task |-> j, error |-> NoError]

----------------------------------------------------------------------------
\* the Connection after construction, its callers not started
ConnInit ==
    /\ pc = [p \in Clients |-> "ready"]
    /\ cur = Hub
    /\ stack = [p \in Clients |-> <<>>]
    /\ ops = 0
    /\ arg = [p \in Clients |-> NoneT]
    /\ exc = [p \in Clients |-> "none"]
    /\ ret = [p \in Clients |-> NoneT]
    /\ last_request = NoneT
    /\ last_response = NoneT
    /\ _asserting = FALSE
    /\ check_function = "default"
    /\ _async = FALSE
    /\ _semaphore = 1
    /\ jobs = [p \in Clients |-> <<>>]
    /\ orphans = <<>>

\* no Task call is made
NoTask ==
    /\ tpc = "none"
    /\ call = "none"
    /\ timeout = 0
    /\ tree = Report :> Node(<<>>)
    /\ now = 0
    /\ delta = 0
    /\ data = [j \in TaskIds |-> NoData]
    /\ tasks = <<>>
    /\ ti = 0
    /\ frames = <<>>
    /\ texc = NoExc
    /\ gone = {}
    /\ seen = <<>>
    /\ sleeps = 0
    /\ entered = 0
    /\ visited = <<>>
    /\ fetched = <<>>
    /\ reloaded = {}
    /\ returns = <<>>

Init == ConnInit /\ NoTask

Running(p) == cur = p /\ pc[p] = "run"
MayStart(p) == Running(p) /\ ops < MaxOps

\* the descriptor the next call of send passes
NextRequest == ops + 1

\* the hub switches to a greenlet that was spawned and has not run yet
Start(p) ==
    /\ cur = Hub /\ pc[p] = "ready"
    /\ pc' = [pc EXCEPT ![p] = "run"]
    /\ cur' = p
    /\ UNCHANGED <<stack, ops, arg, exc, ret, conn, _semaphore, jobs, orphans>>

----------------------------------------------------------------------------
(* Pulp.send *)

\* a plausible slip: send never looks at the mode
InBatchModeIgnored(flag) == FALSE

\* `if self._async:` in send
InBatchMode(flag) == flag

\* with self._semaphore: self.last_request = request(...); session.send(...)
SendDispatch(p, r) ==
    /\ _semaphore' = 0
    /\ last_request' = One(Prepare(r))
    /\ arg' = [arg EXCEPT ![p] = One(Prepare(r))]
    /\ pc' = [pc EXCEPT ![p] = "send_io"]
    /\ cur' = Hub
    /\ UNCHANGED <<stack, exc, last_response, _asserting, check_function,
                   _async, jobs, orphans>>

\* send in batch mode: queue the prepared request and return None
SendQueue(p, r) ==
    LET q == Queue(last_request, r)
    IN /\ IF q = NoneT
          THEN /\ pc' = [pc EXCEPT ![p] = "raise"]
               /\ exc' = [exc EXCEPT ![p] = "TypeError"]
               /\ UNCHANGED last_request
          ELSE /\ last_request' = q
               /\ UNCHANGED <<pc, exc>>
       /\ UNCHANGED <<cur, stack, arg, last_response, _asserting,
                      check_function, _async, _semaphore, jobs, orphans>>

\* a client calls send(request)
Send(p) ==
    /\ MayStart(p)
    /\ ops' = ops + 1
    /\ ret' = [ret EXCEPT ![p] = NoneT]
    /\ IF InBatchMode(_async) THEN SendQueue(p, NextRequest)
       ELSE IF SendMayEnter(_semaphore) THEN SendDispatch(p, NextRequest)
       ELSE /\ pc' = [pc EXCEPT ![p] = "send_wait"]
            /\ arg' = [arg EXCEPT ![p] = One(NextRequest)]
            /\ cur' = Hub
            /\ UNCHANGED <<stack, exc, conn, _semaphore, jobs, orphans>>

\* a send that was blocked on the semaphore acquires it
SendAcquire(p) ==
    /\ cur = Hub /\ pc[p] = "send_wait"
    /\ SendMayEnter(_semaphore)
    /\ SendDispatch(p, arg[p].item)
    /\ UNCHANGED <<ops, ret>>

\* lines 67-72 once session.send has returned resp: the exception send
\* raises ("none": it returns resp)
SendOutcome(asserting, lreq, resp, cf) ==
    AssertSend(asserting, lreq, One(resp), cf)

\* session.send returns with status s; the rest of send runs
SendComplete(p, s) ==
    /\ cur = Hub /\ pc[p] = "send_io"
    /\ LET resp == Response(arg[p].item, s)
           e == SendOutcome(_asserting, last_request, resp, check_function)
       IN /\ last_response' = One(resp)
          /\ pc' = [pc EXCEPT ![p] = IF e = "none" THEN "run" ELSE "raise"]
          /\ exc' = [exc EXCEPT ![p] = e]
          /\ ret' = [ret EXCEPT ![p] = IF e = "none" THEN One(resp) ELSE NoneT]
    /\ _semaphore' = 1
    /\ arg' = [arg EXCEPT ![p] = NoneT]
    /\ cur' = p
    /\ UNCHANGED <<stack, ops, last_request, _asserting, check_function,
                   _async, jobs, orphans>>

\* session.send raises (the transport gave up): the with statement
\* releases the semaphore and the exception leaves send
SendFail(p) ==
    /\ cur = Hub /\ pc[p] = "send_io"
    /\ _semaphore' = 1
    /\ pc' = [pc EXCEPT ![p] = "raise"]
    /\ exc' = [exc EXCEPT ![p] = "ConnectionError"]
    /\ arg' = [arg EXCEPT ![p] = NoneT]
    /\ cur' = p
    /\ UNCHANGED <<stack, ops, ret, conn, jobs, orphans>>

----------------------------------------------------------------------------
(* Pulp.asserting *)

\* a plausible slip: the finally clause forgets check_function
AssertingRestoreFlagOnly(frame, flag, cf) == <<frame.old_value, cf>>

\* the finally clause of asserting: the values of (_asserting,
\* check_function) it writes, from the generator's locals
AssertingRestore(frame, flag, cf) ==
    <<frame.old_value, frame.old_check_function>>

\* the check_function asserting leaves in force on entry
AssertingOverride(cf, given) == IF given = "None" THEN cf ELSE given

\* with pulp.asserting(value, check_function): up to the yield
EnterAsserting(p, value, given) ==
    /\ MayStart(p)
    /\ ops' = ops + 1
    /\ stack' = [stack EXCEPT
                   ![p] = <<AssertingFrame(_asserting, check_function)>> \o @]
    /\ _asserting' = value
    /\ check_function' = AssertingOverride(check_function, given)
    /\ UNCHANGED <<pc, cur, arg, exc, ret, last_request, last_response,
                   _async, _semaphore, jobs, orphans>>

----------------------------------------------------------------------------
(* Pulp.async *)

\* a plausible slip: async does not test for an open batch
NestedUnchecked(flag) == FALSE

\* `if self._async: raise RuntimeError` under the semaphore
Nested(flag) == flag

\* async up to the yield, once the semaphore is acquired; the with
\* statement releases it again on both paths
BatchEnter(p, t) ==
    /\ IF Nested(_async)
       THEN /\ pc' = [pc EXCEPT ![p] = "raise"]
            /\ exc' = [exc EXCEPT ![p] = "RuntimeError"]
            /\ UNCHANGED <<stack, last_request, _async>>
       ELSE /\ last_request' = Tup(<<>>)
            /\ _async' = TRUE
            /\ stack' = [stack EXCEPT ![p] = <<AsyncFrame(t)>> \o @]
            /\ pc' = [pc EXCEPT ![p] = "run"]
            /\ UNCHANGED exc
    /\ cur' = p
    /\ arg' = [arg EXCEPT ![p] = NoneT]
    /\ UNCHANGED <<ret, last_response, _asserting, check_function,
                   _semaphore, jobs, orphans>>

\* with pulp.async(timeout): t says whether a timeout was given
OpenBatch(p, t) ==
    /\ MayStart(p)
    /\ ops' = ops + 1
    /\ IF _semaphore > 0 THEN BatchEnter(p, t)
       ELSE /\ pc' = [pc EXCEPT ![p] = "async_wait"]
            /\ arg' = [arg EXCEPT ![p] = One(t)]
            /\ cur' = Hub
            /\ UNCHANGED <<stack, exc, ret, conn, _semaphore, jobs, orphans>>

\* an async entry that was blocked on the semaphore acquires it
OpenBatchAcquire(p) ==
    /\ cur = Hub /\ pc[p] = "async_wait"
    /\ _semaphore > 0
    /\ BatchEnter(p, arg[p].item)
    /\ UNCHANGED ops

\* a plausible slip: no finally clause, the flag is left as it is
BatchFinallyMissing(flag) == flag

\* the finally clause of async: the value of _async it writes
BatchFinally(flag) == FALSE

\* lines 116-121, once joinall has returned with the jobs in state js
AfterJoin(p, js) ==
    LET lr == Tup(JobValues(js))
        e == AssertBatch(_asserting, lr, check_function)
    IN /\ last_response' = lr
       /\ pc' = [pc EXCEPT ![p] = IF e = "none" THEN "run" ELSE "raise"]
       /\ exc' = [exc EXCEPT ![p] = e]
       /\ _async' = BatchFinally(_async)
       /\ stack' = [stack EXCEPT ![p] = Tail(@)]
       /\ jobs' = [jobs EXCEPT ![p] = <<>>]
       /\ orphans' = orphans \o Lingering(js)
       /\ cur' = p
       /\ UNCHANGED <<ops, arg, ret, last_request, _asserting,
                      check_function, _semaphore>>

\* an exception leaves the try block of async: only the finally clause runs
BatchAbort(p, e, js) ==
    /\ pc' = [pc EXCEPT ![p] = "raise"]
    /\ exc' = [exc EXCEPT ![p] = e]
    /\ _async' = BatchFinally(_async)
    /\ stack' = [stack EXCEPT ![p] = Tail(@)]
    /\ jobs' = [jobs EXCEPT ![p] = <<>>]
    /\ orphans' = orphans \o Lingering(js)
    /\ cur' = p
    /\ UNCHANGED <<ops, arg, ret, last_request, last_response, _asserting,
                   check_function, _semaphore>>

\* the body of async returned: lines 113-115 up to the switch in joinall
\* (joinall of no greenlets returns at once)
BatchBodyDone(p) ==
    IF last_request.kind # "tuple" THEN BatchAbort(p, "TypeError", <<>>)
    ELSE IF Spawn(last_request) = <<>> THEN AfterJoin(p, <<>>)
    ELSE /\ jobs' = [jobs EXCEPT ![p] = Spawn(last_request)]
         /\ pc' = [pc EXCEPT ![p] = "join"]
         /\ cur' = Hub
         /\ UNCHANGED <<stack, ops, arg, exc, ret, conn, _semaphore, orphans>>

\* the body of the innermost with statement of p returns
ExitScope(p) ==
    /\ Running(p) /\ stack[p] # <<>>
    /\ IF Head(stack[p]).kind = "async" THEN BatchBodyDone(p)
       ELSE /\ _asserting' =
                  AssertingRestore(Head(stack[p]), _asserting, check_function)[1]
            /\ check_function' =
                  AssertingRestore(Head(stack[p]), _asserting, check_function)[2]
            /\ stack' = [stack EXCEPT ![p] = Tail(@)]
            /\ UNCHANGED <<pc, cur, ops, arg, exc, ret, last_request,
                           last_response, _async, _semaphore, jobs, orphans>>

AllDone(js) == \A i \in 1..Len(js) : js[i].st = "done"
SomeFailed(js) == \E i \in 1..Len(js) : js[i].st = "failed"

\* joinall returns: every sender has finished successfully
JoinReturn(p) ==
    /\ cur = Hub /\ pc[p] = "join"
    /\ AllDone(jobs[p])
    /\ AfterJoin(p, jobs[p])

\* what joinall(jobs, timeout=timeout, raise_error=True) does when the
\* timeout elapses: gevent returns the finished greenlets and raises
\* nothing ("none"), so line 116 runs next
JoinTimedOut == "none"

\* the timeout of joinall elapses before every sender has finished
JoinTimeout(p) ==
    /\ cur = Hub /\ pc[p] = "join"
    /\ Head(stack[p]).timeout
    /\ ~AllDone(jobs[p]) /\ ~SomeFailed(jobs[p])
    /\ IF JoinTimedOut = "none" THEN AfterJoin(p, jobs[p])
       ELSE BatchAbort(p, JoinTimedOut, jobs[p])

\* joinall re-raises the exception of a sender that failed (raise_error)
JoinRaise(p) ==
    /\ cur = Hub /\ pc[p] = "join"
    /\ SomeFailed(jobs[p])
    /\ BatchAbort(p, "ConnectionError", jobs[p])

----------------------------------------------------------------------------
(* sender greenlets: def sender(request) inside async *)

\* a spawned sender enters `with self._semaphore` and calls session.send
SenderAcquire(p, i) ==
    /\ cur = Hub
    /\ i \in 1..Len(jobs[p]) /\ jobs[p][i].st = "spawned"
    /\ SenderMayEnter(_semaphore)
    /\ _semaphore' = 0
    /\ jobs' = [jobs EXCEPT ![p][i].st = "sending"]
    /\ UNCHANGED <<pc, cur, stack, ops, arg, exc, ret, conn, orphans>>

\* session.send returns with status s: the sender returns it and ends
SenderComplete(p, i, s) ==
    /\ cur = Hub
    /\ i \in 1..Len(jobs[p]) /\ jobs[p][i].st = "sending"
    /\ _semaphore' = 1
    /\ jobs' = [jobs EXCEPT ![p][i].st = "done",
                            ![p][i].value = Response(jobs[p][i].req, s)]
    /\ UNCHANGED <<pc, cur, stack, ops, arg, exc, ret, conn, orphans>>

\* session.send raises in the sender
SenderFail(p, i) ==
    /\ cur = Hub
    /\ i \in 1..Len(jobs[p]) /\ jobs[p][i].st = "sending"
    /\ _semaphore' = 1
    /\ jobs' = [jobs EXCEPT ![p][i].st = "failed"]
    /\ UNCHANGED <<pc, cur, stack, ops, arg, exc, ret, conn, orphans>>

\* a sender whose batch has already exited enters session.send
OrphanAcquire(i) ==
    /\ cur = Hub
    /\ i \in 1..Len(orphans) /\ orphans[i].st = "spawned"
    /\ SenderMayEnter(_semaphore)
    /\ _semaphore' = 0
    /\ orphans' = [orphans EXCEPT ![i].st = "sending"]
    /\ UNCHANGED <<pc, cur, stack, ops, arg, exc, ret, conn, jobs>>

\* ... and its session.send returns or raises; nobody reads the outcome
OrphanComplete(i) ==
    /\ cur = Hub
    /\ i \in 1..Len(orphans) /\ orphans[i].st = "sending"
    /\ _semaphore' = 1
    /\ orphans' = RemoveAt(orphans, i)
    /\ UNCHANGED <<pc, cur, stack, ops, arg, exc, ret, conn, jobs>>

----------------------------------------------------------------------------
(* the callers' own code *)

\* the body of a with statement raises an exception of its own
Raise(p) ==
    /\ Running(p) /\ stack[p] # <<>>
    /\ pc' = [pc EXCEPT ![p] = "raise"]
    /\ exc' = [exc EXCEPT ![p] = "BodyError"]
    /\ UNCHANGED <<cur, stack, ops, arg, ret, conn, _semaphore, jobs, orphans>>

\* an exception leaves the innermost with statement of p: the finally
\* clause of asserting, or of async (thrown in at its yield), runs
Unwind(p) ==
    /\ cur = p /\ pc[p] = "raise" /\ stack[p] # <<>>
    /\ stack' = [stack EXCEPT ![p] = Tail(@)]
    /\ IF Head(stack[p]).kind = "async"
       THEN /\ _async' = BatchFinally(_async)
            /\ UNCHANGED <<_asserting, check_function>>
       ELSE /\ _asserting' =
                  AssertingRestore(Head(stack[p]), _asserting, check_function)[1]
            /\ check_function' =
                  AssertingRestore(Head(stack[p]), _asserting, check_function)[2]
            /\ UNCHANGED _async
    /\ UNCHANGED <<pc, cur, ops, arg, exc, ret, last_request, last_response,
                   _semaphore, jobs, orphans>>

\* the caller handles the exception (try/except around the statement)
Catch(p) ==
    /\ cur = p /\ pc[p] = "raise"
    /\ pc' = [pc EXCEPT ![p] = "run"]
    /\ exc' = [exc EXCEPT ![p] = "none"]
    /\ UNCHANGED <<cur, stack, ops, arg, ret, conn, _semaphore, jobs, orphans>>

\* the client greenlet ends
Finish(p) ==
    /\ Running(p) /\ stack[p] = <<>>
    /\ pc' = [pc EXCEPT ![p] = "end"]
    /\ cur' = Hub
    /\ UNCHANGED <<stack, ops, arg, exc, ret, conn, _semaphore, jobs, orphans>>

----------------------------------------------------------------------------
\* the Connection's steps; no Task call is in progress
Next ==
    \/ (\E p \in Clients : Start(p)) /\ UNCHANGED tvars
    \/ (\E p \in Clients : Send(p)) /\ UNCHANGED tvars
    \/ (\E p \in Clients : SendAcquire(p)) /\ UNCHANGED tvars
    \/ (\E p \in Clients, s \in Statuses : SendComplete(p, s))
          /\ UNCHANGED tvars
    \/ (\E p \in Clients : SendFail(p)) /\ UNCHANGED tvars
    \/ (\E p \in Clients, v \in BOOLEAN, g \in CheckFunctions \cup {"None"} :
          EnterAsserting(p, v, g)) /\ UNCHANGED tvars
    \/ (\E p \in Clients, t \in BOOLEAN : OpenBatch(p, t)) /\ UNCHANGED tvars
    \/ (\E p \in Clients : OpenBatchAcquire(p)) /\ UNCHANGED tvars
    \/ (\E p \in Clients : ExitScope(p)) /\ UNCHANGED tvars
    \/ (\E p \in Clients : JoinReturn(p)) /\ UNCHANGED tvars
    \/ (\E p \in Clients : JoinTimeout(p)) /\ UNCHANGED tvars
    \/ (\E p \in Clients : JoinRaise(p)) /\ UNCHANGED tvars
    \/ (\E p \in Clients, i \in 1..MaxOps : SenderAcquire(p, i))
          /\ UNCHANGED tvars
    \/ (\E p \in Clients, i \in 1..MaxOps, s \in Statuses :
          SenderComplete(p, i, s)) /\ UNCHANGED tvars
    \/ (\E p \in Clients, i \in 1..MaxOps : SenderFail(p, i))
          /\ UNCHANGED tvars
    \/ (\E i \in 1..MaxOps : OrphanAcquire(i)) /\ UNCHANGED tvars
    \/ (\E i \in 1..MaxOps : OrphanComplete(i)) /\ UNCHANGED tvars
    \/ (\E p \in Clients : Raise(p)) /\ UNCHANGED tvars
    \/ (\E p \in Clients : Unwind(p)) /\ UNCHANGED tvars
    \/ (\E p \in Clients : Catch(p)) /\ UNCHANGED tvars
    \/ (\E p \in Clients : Finish(p)) /\ UNCHANGED tvars

Spec == Init /\ [][Next]_allvars

----------------------------------------------------------------------------
(* AbstractTask.wait, Task.wait_for_response, Task.wait_for_report *)

\* the Task whose wait is running
Current == tasks[ti]

\* a plausible slip: the timeout is not added to the entry time
DeadlineWithoutTimeout(t0, tmo) == t0

\* delta = time.time() + timeout
Deadline(t0, tmo) == t0 + tmo

\* the else of: while time.time() <= delta
Elapsed(t1, dl) == ~(t1 <= dl)

\* a plausible slip: a vanished job does not end the loop
LoopEndsOnEndStateOnly(o, d) == d.state \in end_states

\* a plausible slip: an end state does not end the loop
LoopEndsOnGoneOnly(o, d) == ~o.found

\* the two breaks of the loop: reload raised AssertionError, or
\* self.state in self.end_states
LoopEnds(o, d) == ~o.found \/ d.state \in end_states

\* a plausible slip: the state is not looked at after the loop
FailedNever(d) == FALSE

\* if self.state in self.error_states
Failed(d) == d.state \in error_states

\* a plausible slip: the spawned tasks of a job are not followed
SpawnsNever(node) == FALSE

\* if 'spawned_tasks' in Task.from_response(task_resp).data
Spawns(node) == node.has

\* the reference the innermost wait_for_report is at
Ref == frames[Len(frames)].refs[frames[Len(frames)].i]

\* for task in ret: the innermost loop moves on; a call whose loop is
\* exhausted returns into the loop of its caller
RECURSIVE Advance(_)
Advance(fs) ==
    IF fs = <<>> THEN <<>>
    ELSE IF fs[Len(fs)].i < Len(fs[Len(fs)].refs)
         THEN [fs EXCEPT ![Len(fs)].i = @ + 1]
         ELSE Advance(SubSeq(fs, 1, Len(fs) - 1))

\* wait_for_report is called with the given spawned_tasks
EnterReport(fs, refs) ==
    IF refs = <<>> THEN Advance(fs) ELSE Append(fs, [refs |-> refs, i |-> 1])

\* a call of wait_for_response / wait_for_report is made on a fresh
\* Connection: the Tasks of a response carry the state the response held
TaskInit ==
    /\ call \in {"response", "report"}
    /\ tpc = call
    /\ timeout \in Timeouts
    /\ tree \in Trees
    /\ now = 0
    /\ delta = 0
    /\ data \in {f \in [TaskIds -> Reported \cup {NoData}] :
                   \A j \in TaskIds :
                      (f[j] # NoData) <=>
                         (call = "response" /\
                          \E k \in 1..Len(tree[Report].refs) :
                              tree[Report].refs[k] = j)}
    /\ tasks = <<>>
    /\ ti = 0
    /\ frames = <<>>
    /\ texc = NoExc
    /\ gone = {}
    /\ seen = <<>>
    /\ sleeps = 0
    /\ entered = 0
    /\ visited = <<>>
    /\ fetched = <<>>
    /\ reloaded = {}
    /\ returns = <<>>

TaskInitial == ConnInit /\ TaskInit

\* Task.wait_for_response: ret = cls.from_response(response); a single
\* Task is the list of one
WaitForResponse ==
    /\ tpc = "response"
    /\ tasks' = tree[Report].refs
    /\ ti' = 1
    /\ tpc' = IF tree[Report].refs = <<>> THEN "returned" ELSE "enter"
    /\ UNCHANGED <<call, timeout, tree, now, delta, data, frames, texc, gone,
                   seen, sleeps, entered, visited, fetched, reloaded, returns>>

\* Task.wait_for_report: ret = cls.from_report(response)['spawned_tasks']
WaitForReport ==
    /\ tpc = "report"
    /\ frames' = EnterReport(<<>>, tree[Report].refs)
    /\ tpc' = IF frames' = <<>> THEN "returned" ELSE "fetch"
    /\ UNCHANGED <<call, timeout, tree, now, delta, data, tasks, ti, texc,
                   gone, seen, sleeps, entered, visited, fetched, reloaded,
                   returns>>

\* wait_for_report: task_resp = pulp.send(Request('GET', ...)), then
\* Task.wait_for_response(pulp, task_resp) makes the Task it waits on
Fetch(o) ==
    /\ tpc = "fetch"
    /\ fetched' = Append(fetched, Ref)
    /\ IF o.found
       THEN /\ data' = [data EXCEPT ![Ref] = o.data]
            /\ tasks' = <<Ref>>
            /\ ti' = 1
            /\ tpc' = "enter"
            /\ UNCHANGED <<texc, gone>>
       ELSE /\ tpc' = "raised"
            /\ texc' = NotFound(Ref)
            /\ gone' = gone \cup {Ref}
            /\ UNCHANGED <<data, tasks, ti>>
    /\ UNCHANGED <<call, timeout, tree, now, delta, frames, seen, sleeps,
                   entered, visited, reloaded, returns>>

\* AbstractTask.wait: delta = time.time() + timeout
WaitEnter ==
    /\ tpc = "enter"
    /\ delta' = Deadline(now, timeout)
    /\ entered' = now
    /\ seen' = <<>>
    /\ sleeps' = 0
    /\ visited' = Append(visited, Current)
    /\ tpc' = "test"
    /\ UNCHANGED <<call, timeout, tree, now, data, tasks, ti, frames, texc,
                   gone, fetched, reloaded, returns>>

\* while time.time() <= delta: ... else: raise TaskTimeoutError
LoopTest ==
    /\ tpc = "test"
    /\ IF Elapsed(now, delta)
       THEN tpc' = "raised" /\ texc' = TaskTimeoutError(Current)
       ELSE tpc' = "sleep" /\ texc' = texc
    /\ UNCHANGED <<call, timeout, tree, now, delta, data, tasks, ti, frames,
                   gone, seen, sleeps, entered, visited, fetched, reloaded,
                   returns>>

\* time.sleep(frequency)
Sleep ==
    /\ tpc = "sleep"
    /\ now < MaxTime
    /\ now' = now + 1
    /\ sleeps' = sleeps + 1
    /\ tpc' = "reload"
    /\ UNCHANGED <<call, timeout, tree, delta, data, tasks, ti, frames, texc,
                   gone, seen, entered, visited, fetched, reloaded, returns>>

\* self.reload(pulp) answered with o, and what follows without waiting:
\* the breaks, the test of error_states after the loop, and on a normal
\* return the next Task of wait_for_response or the return to its caller
Reload(o) ==
    /\ tpc = "reload"
    /\ LET j == Current
           d == IF o.found THEN o.data ELSE data[j]
       IN /\ data' = [data EXCEPT ![j] = d]
          /\ seen' = Append(seen, o)
          /\ reloaded' = reloaded \cup {j}
          /\ gone' = IF o.found THEN gone ELSE gone \cup {j}
          /\ IF ~LoopEnds(o, d)
             THEN tpc' = "test" /\ UNCHANGED <<texc, ti, returns>>
             ELSE IF Failed(d)
             THEN /\ tpc' = "raised"
                  /\ texc' = TaskFailure(j, d)
                  /\ UNCHANGED <<ti, returns>>
             ELSE /\ returns' = Append(returns, [task |-> j,
                                                 state |-> d.state,
                                                 gone |-> ~o.found])
                  /\ texc' = texc
                  /\ IF ti < Len(tasks)
                     THEN ti' = ti + 1 /\ tpc' = "enter"
                     ELSE /\ ti' = ti
                          /\ tpc' = IF frames = <<>> THEN "returned"
                                    ELSE "refetch"
    /\ UNCHANGED <<call, timeout, tree, now, delta, tasks, frames, sleeps,
                   entered, visited, fetched>>

\* wait_for_report: the second GET of the job, and the recursion into its
\* spawned tasks
Refetch(found) ==
    /\ tpc = "refetch"
    /\ found => Ref \notin gone
    /\ IF found
       THEN /\ frames' = IF Spawns(tree[Ref])
                         THEN EnterReport(frames, tree[Ref].refs)
                         ELSE Advance(frames)
            /\ tpc' = IF frames' = <<>> THEN "returned" ELSE "fetch"
            /\ UNCHANGED <<texc, gone>>
       ELSE /\ tpc' = "raised"
            /\ texc' = NotFound(Ref)
            /\ gone' = gone \cup {Ref}
            /\ UNCHANGED frames
    /\ UNCHANGED <<call, timeout, tree, now, delta, data, tasks, ti, seen,
                   sleeps, entered, visited, fetched, reloaded, returns>>

\* time passes while the call runs
Tick ==
    /\ tpc \notin {"none", "returned", "raised"}
    /\ now < MaxTime
    /\ now' = now + 1
    /\ UNCHANGED <<tpc, call, timeout, tree, delta, data, tasks, ti, frames,
                   texc, gone, seen, sleeps, entered, visited, fetched,
                   reloaded, returns>>

\* the Task call's steps; nothing else uses the Connection
TaskNext ==
    \/ WaitForResponse /\ UNCHANGED vars
    \/ WaitForReport /\ UNCHANGED vars
    \/ (\E o \in Outcomes : Fetch(o)) /\ UNCHANGED vars
    \/ WaitEnter /\ UNCHANGED vars
    \/ LoopTest /\ UNCHANGED vars
    \/ Sleep /\ UNCHANGED vars
    \/ (\E o \in Outcomes : Reload(o)) /\ UNCHANGED vars
    \/ (\E found \in BOOLEAN : Refetch(found)) /\ UNCHANGED vars
    \/ Tick /\ UNCHANGED vars

SpecTask == TaskInitial /\ [][TaskNext]_allvars

----------------------------------------------------------------------------
(* Properties *)

\* the dispatches that are inside session.send
InFlight ==
    Cardinality({p \in Clients : pc[p] = "send_io"})
    + Cardinality({<<p, i>> \in Clients \X (1..MaxOps) :
                      i <= Len(jobs[p]) /\ jobs[p][i].st = "sending"})
    + Cardinality({i \in 1..Len(orphans) : orphans[i].st = "sending"})

HasBatch(p) == \E i \in 1..Len(stack[p]) : stack[p][i].kind = "async"

\* p is inside the body of its batch: entered, and the body has not finished
InBody(p) == HasBatch(p) /\ pc[p] = "run"

\* the step leaves the innermost scope of p, and that scope is of kind k
Leaves(p, k) ==
    /\ stack[p] # <<>>
    /\ Head(stack[p]).kind = k
    /\ stack'[p] = Tail(stack[p])

\* C1: at most one request is in flight on the session at any time: no two
\* dispatches (a synchronous send, a sender of a batch) are inside
\* session.send together, for any interleaving of the callers.
C1_OneInFlight == InFlight <= 1

\* a sender is inside session.send while a synchronous send waits for the
\* semaphore
C1_Witness ==
    /\ \E p \in Clients : pc[p] = "send_wait"
    /\ \E i \in 1..Len(orphans) : orphans[i].st = "sending"

\* C2: when the senders of a batch of N queued requests have all completed,
\* in whatever order, the tuple stored as last_response at exit has length N
\* and its i-th element is the response to the i-th queued request.
C2_SubmissionOrder ==
    [][\A p \in Clients :
         /\ (Running(p) /\ ExitScope(p) /\ pc'[p] = "join") =>
               /\ Len(jobs'[p]) = Len(last_request.items)
               /\ \A i \in 1..Len(jobs'[p]) :
                     jobs'[p][i].req = last_request.items[i]
         /\ (pc[p] = "join" /\ AllDone(jobs[p]) /\ Leaves(p, "async")) =>
               /\ last_response'.kind = "tuple"
               /\ Len(last_response'.items) = Len(jobs[p])
               /\ \A i \in 1..Len(jobs[p]) :
                     /\ last_response'.items[i].req = jobs[p][i].req
                     /\ last_response'.items[i].status_code \in Statuses
      ]_vars

\* a batch of two requests has exited and left its two responses
C2_Witness ==
    /\ ~_async
    /\ last_request.kind = "tuple" /\ Len(last_request.items) = 2
    /\ last_response.kind = "tuple" /\ Len(last_response.items) = 2
    /\ \A i \in 1..2 : last_response.items[i].req = last_request.items[i]

\* C3: while the body of a batch runs, a send dispatches nothing and leaves
\* last_response alone: it appends the prepared request to the pending queue
\* and returns None; no queued request is dispatched before the body ends.
C3_QueueOnly ==
    [][\A p \in Clients :
         InBody(p) =>
            /\ InFlight = 0
            /\ (Send(p) \/ InBody(p)') =>
                  /\ InFlight' = 0
                  /\ jobs' = jobs /\ orphans' = orphans
                  /\ last_response' = last_response
            /\ Send(p) =>
                  /\ last_request.kind = "tuple"
                  /\ last_request' =
                        Tup(Append(last_request.items, Prepare(NextRequest)))
                  /\ ret'[p] = NoneT
                  /\ pc'[p] = "run"
      ]_vars

\* a batch body has queued a request after an earlier synchronous response
C3_Witness ==
    \E p \in Clients :
       /\ InBody(p)
       /\ last_response.kind = "one"
       /\ last_request.kind = "tuple" /\ Len(last_request.items) = 1
       /\ ret[p] = NoneT

\* the step runs the entry of async for p under the semaphore
EntersBatch(p) ==
    \/ \E t \in BOOLEAN : OpenBatch(p, t) /\ _semaphore > 0
    \/ OpenBatchAcquire(p)

\* C4: the entry of async on a Connection whose batch is open raises
\* RuntimeError and leaves the pending queue (last_request) and the
\* batch-mode flag as they were.
C4_NoNesting ==
    [][\A p \in Clients :
         (EntersBatch(p) /\ _async) =>
            /\ pc'[p] = "raise" /\ exc'[p] = "RuntimeError"
            /\ last_request' = last_request
            /\ _async' = _async
            /\ stack' = stack /\ jobs' = jobs
      ]_vars

\* a nested async has failed and the queue of the open batch is intact
C4_Witness ==
    \E p \in Clients :
       /\ pc[p] = "raise" /\ exc[p] = "RuntimeError"
       /\ _async
       /\ last_request.kind = "tuple" /\ Len(last_request.items) = 1

\* the requests of p's batch that have entered session.send
Dispatched(p) ==
    {jobs[p][i].req : i \in {k \in 1..Len(jobs[p]) :
                               jobs[p][k].st \in {"sending", "done", "failed"}}}

Queued == IF last_request.kind = "tuple"
          THEN {last_request.items[i] : i \in 1..Len(last_request.items)}
          ELSE {}

C6_TimeoutPropagates ==
    [][\A p \in Clients :
         JoinTimeout(p) =>
            /\ pc'[p] = "raise" /\ exc'[p] = "Timeout"
            /\ last_response' = last_response
      ]_vars

\* C7: with strict validation on at batch exit and every dispatch
\* completed, the exit raises AssertionError exactly when some recorded
\* response fails the acceptance predicate, and raises nothing else.
C7_ValidationError ==
    [][\A p \in Clients :
         (JoinReturn(p) /\ _asserting) =>
            IF \E i \in 1..Len(jobs[p]) :
                  ~Check(check_function, jobs[p][i].value)
            THEN pc'[p] = "raise" /\ exc'[p] = "AssertionError"
            ELSE pc'[p] = "run"
      ]_vars

\* C8: a synchronous send under strict validation with the default
\* predicate raises AssertionError exactly when the status is outside
\* [200, 400); either way the response is stored as last_response and the
\* semaphore is released when send exits.
C8_StrictSend ==
    [][\A p \in Clients : \A s \in Statuses :
         (SendComplete(p, s) /\ _asserting /\ check_function = "default") =>
            /\ (pc'[p] = "raise" /\ exc'[p] = "AssertionError")
                  <=> ~(200 <= s /\ s < 400)
            /\ (pc'[p] = "run" /\ ret'[p] = One(Response(arg[p].item, s)))
                  <=> (200 <= s /\ s < 400)
            /\ last_response' = One(Response(arg[p].item, s))
            /\ _semaphore' = 1
      ]_vars

\* a strict send got status 400: it raised, stored the response and
\* released the semaphore
C8_Witness ==
    \E p \in Clients :
       /\ pc[p] = "raise" /\ exc[p] = "AssertionError"
       /\ _asserting /\ check_function = "default"
       /\ last_response.kind = "one" /\ last_response.item.status_code = 400
       /\ _semaphore = 1

\* C9: once a batch scope that was entered has exited, by whatever path,
\* the Connection is not in batch mode: the flag is set exactly while some
\* client is inside a batch scope.
C9_BatchModeCleared == _async <=> \E p \in Clients : HasBatch(p)

\* a batch has exited and a following send dispatches synchronously
C9_Witness ==
    \E p \in Clients :
       /\ pc[p] = "send_io"
       /\ ~_async
       /\ last_response.kind = "tuple"

\* C10: when an asserting scope exits, normally or because its body
\* raised, _asserting and check_function are the values they had when the
\* scope was entered.
C10_AssertingRestored ==
    [][\A p \in Clients :
         /\ (\E v \in BOOLEAN, g \in CheckFunctions \cup {"None"} :
                EnterAsserting(p, v, g)) =>
               /\ Head(stack'[p]).old_value = _asserting
               /\ Head(stack'[p]).old_check_function = check_function
         /\ Leaves(p, "asserting") =>
               /\ _asserting' = Head(stack[p]).old_value
               /\ check_function' = Head(stack[p]).old_check_function
      ]_vars

\* a scope that overrode the predicate was left by an AssertionError on a
\* 200 response, and the flag and the default predicate are back
C10_Witness ==
    \E p \in Clients :
       /\ pc[p] = "raise" /\ exc[p] = "AssertionError" /\ stack[p] = <<>>
       /\ last_response.kind = "one" /\ last_response.item.status_code = 200
       /\ ~_asserting /\ check_function = "default"

----------------------------------------------------------------------------
(* Properties of the Task calls *)

\* the job the current, or the last, wait is about
Waited == visited[Len(visited)]

\* the wait is inside its loop
Polling == tpc \in {"test", "sleep", "reload"}

\* the jobs whose wait returned normally, in order
Settled == [k \in 1..Len(returns) |-> returns[k].task]

IsPrefix(a, b) == Len(a) <= Len(b) /\ SubSeq(b, 1, Len(a)) = a

\* the jobs of the tree under the given references, depth-first and
\* left-to-right, a job before the jobs it spawned
RECURSIVE Preorder(_, _)
Preorder(tr, refs) ==
    IF refs = <<>> THEN <<>>
    ELSE <<Head(refs)>>
           \o (IF tr[Head(refs)].has
               THEN Preorder(tr, tr[Head(refs)].refs) ELSE <<>>)
           \o Preorder(tr, Tail(refs))

\* C11 as stated: wait returns normally only if the Task's state at the
\* moment of return is an end state that is not an error state.
C11_Original ==
    \A k \in 1..Len(returns) : returns[k].state \in end_states \ error_states

\* C11: wait returns normally only if the Task's state at the moment of
\* return is a non-error end state, or the loop was ended by a reload that
\* failed because the job is gone and the last locally known state is not
\* an error state.
C11_ReturnsOnlySettled ==
    \A k \in 1..Len(returns) :
       /\ IF returns[k].gone
          THEN returns[k].state \notin error_states
          ELSE returns[k].state \in end_states \ error_states
       /\ k = Len(returns) => returns[k].state = data[returns[k].task].state

C11_Witness ==
    /\ tpc = "returned"
    /\ \E k \in 1..Len(returns) :
          returns[k].gone /\ returns[k].state \in active_states
    /\ \E k \in 1..Len(returns) :
          ~returns[k].gone /\ returns[k].state = "canceled"

\* C12: wait raises TaskTimeoutError only when the time is past the
\* deadline and the Task's state is not an end state.
C12_TimeoutOnlyUnsettled ==
    texc.type = "TaskTimeoutError" =>
       now > delta /\ data[texc.task].state \notin end_states

\* C13: whenever a reload inside wait observes an error state, wait raises
\* TaskFailure carrying that Task and the reported error payload; it
\* neither raises TaskTimeoutError nor returns normally.
C13_ErrorRaisesTaskFailure ==
    (seen # <<>> /\ seen[Len(seen)].found
       /\ seen[Len(seen)].data.state \in error_states) =>
       /\ tpc = "raised"
       /\ texc = [type |-> "TaskFailure", task |-> Waited,
                  error |-> seen[Len(seen)].data.error]
       /\ \A k \in 1..Len(returns) : returns[k].task # Waited

C13_Witness ==
    /\ Len(seen) = 2
    /\ seen[1].data.state = "running"
    /\ seen[2].data = TaskData("error", "e2")
    /\ texc.type = "TaskFailure"

\* C14 as stated: if a reload inside wait fails because the job is gone,
\* wait performs no further sleep or reload and raises neither
\* TaskTimeoutError nor TaskFailure, whatever the last known state is.
C14_Original ==
    (seen # <<>> /\ ~seen[Len(seen)].found) =>
       /\ ~Polling
       /\ texc.type \notin {"TaskTimeoutError", "TaskFailure"}

\* C14: if a reload inside wait fails because the job is gone, wait
\* performs no further sleep or reload and raises no TaskTimeoutError; it
\* raises TaskFailure, with the locally known payload, exactly if the last
\* locally known state is an error state, and returns normally otherwise.
C14_GoneEndsWait ==
    (seen # <<>> /\ ~seen[Len(seen)].found) =>
       /\ ~Polling
       /\ texc.type # "TaskTimeoutError"
       /\ IF data[Waited].state \in error_states
          THEN /\ tpc = "raised"
               /\ texc = [type |-> "TaskFailure", task |-> Waited,
                          error |-> data[Waited].error]
          ELSE /\ texc.type # "TaskFailure"
               /\ returns # <<>>
               /\ returns[Len(returns)] =
                     [task |-> Waited, state |-> data[Waited].state,
                      gone |-> TRUE]

C14_Witness ==
    /\ Len(seen) = 2
    /\ seen[1].found
    /\ ~seen[2].found
    /\ tpc = "returned"

\* C15: when the polls report non-end states and then a non-error end
\* state, wait keeps polling, one sleep then one reload per cycle, through
\* the non-end states, stops at the first reload that observes the end
\* state, reloads no more and returns normally.
C15_PollsUntilEndState ==
    /\ sleeps = Len(seen) + (IF tpc = "reload" THEN 1 ELSE 0)
    /\ \A k \in 1..(Len(seen) - 1) :
          seen[k].found /\ seen[k].data.state \notin end_states
    /\ (seen # <<>> /\ seen[Len(seen)].found) =>
          IF seen[Len(seen)].data.state \in end_states \ error_states
          THEN /\ ~Polling
               /\ texc.type \notin {"TaskTimeoutError", "TaskFailure"}
               /\ returns # <<>>
               /\ returns[Len(returns)] =
                     [task |-> Waited,
                      state |-> seen[Len(seen)].data.state, gone |-> FALSE]
          ELSE seen[Len(seen)].data.state \notin end_states =>
                  \/ Polling
                  \/ /\ tpc = "raised"
                     /\ texc = TaskTimeoutError(Waited)
                     /\ now > delta

C15_Witness ==
    /\ Len(seen) = 3
    /\ seen[1].data.state = "waiting"
    /\ seen[2].data.state = "running"
    /\ seen[3].data.state = "finished"
    /\ now <= delta
    /\ tpc = "returned"

\* C16: wait_for_report returns normally only after every job of the tree
\* under the report has been waited on, the jobs taken depth-first and
\* left-to-right and a job's wait finished before the next job is fetched;
\* the first TaskFailure or TaskTimeoutError of any wait propagates and no
\* later job is fetched or waited on.
C16_TreeWait ==
    call = "report" =>
       /\ IsPrefix(fetched, Preorder(tree, tree[Report].refs))
       /\ IsPrefix(visited, fetched)
       /\ Len(fetched) <= Len(visited) + 1
       /\ IsPrefix(Settled, visited)
       /\ Len(visited) <= Len(Settled) + 1
       /\ Len(fetched) > Len(visited) => Settled = visited
       /\ tpc = "returned" => Settled = Preorder(tree, tree[Report].refs)
       /\ (tpc = "raised"
             /\ texc.type \in {"TaskTimeoutError", "TaskFailure"}) =>
             /\ texc.task = Waited
             /\ fetched = visited
             /\ Settled = SubSeq(visited, 1, Len(visited) - 1)
             /\ reloaded \subseteq {visited[k] : k \in 1..Len(visited)}

C16_Witness ==
    /\ call = "report"
    /\ tpc = "returned"
    /\ Settled = <<1, 2, 3>>
    /\ tree[1].refs = <<2>>

\* C17: wait_for_response waits on the Tasks of the response one at a time
\* in their listed order, each with the full timeout from its own start;
\* when one wait fails the failure propagates and no later Task is
\* reloaded or waited on.
C17_OneAtATime ==
    call = "response" =>
       /\ IsPrefix(visited, tree[Report].refs)
       /\ IsPrefix(Settled, visited)
       /\ Len(visited) <= Len(Settled) + 1
       /\ Polling => delta = entered + timeout
       /\ reloaded \subseteq {visited[k] : k \in 1..Len(visited)}
       /\ tpc = "returned" => Settled = tree[Report].refs
       /\ tpc = "raised" =>
             /\ texc.type \in {"TaskTimeoutError", "TaskFailure"}
             /\ texc.task = Waited
             /\ Settled = SubSeq(visited, 1, Len(visited) - 1)

C17_Witness ==
    /\ call = "response"
    /\ tree[Report].refs = <<1, 2, 3>>
    /\ timeout = 3
    /\ visited = <<1, 2>>
    /\ entered > 0
    /\ texc = TaskTimeoutError(2)
    /\ reloaded = {1, 2}

\* C18: every request send accepts into the pending queue while the
\* batch-mode flag is set has been dispatched when the flag is cleared,
\* when the body returned and no dispatch failed or timed out; also a
\* request another task sends while the exit is dispatching the queue.
C18_AcceptedAreDispatched ==
    [][\A p \in Clients :
         JoinReturn(p) => Queued \subseteq Dispatched(p)
      ]_vars

\* C19: once a batch scope has exited, no request queued in that batch is
\* dispatched to the session any more, also after an exit on timeout with
\* senders still pending.
C19_NoDispatchAfterExit ==
    [][\A i \in 1..MaxOps : ~OrphanAcquire(i)]_vars

\* C20: when asserting scopes of two tasks overlap, then after both have
\* exited _asserting and check_function are the values they had before
\* either was entered (those of Init: only scopes write them).
C20_OverlapRestored ==
    (\A p \in Clients : stack[p] = <<>>) =>
       (_asserting = FALSE /\ check_function = "default")

====
